---- MODULE Spec2Model ----
(***************************************************************************)
(* A model of bach.py: the Synchronizer (gen_states), the joint-state      *)
(* codec (str / literal_eval), the training loop (make_model) and the      *)
(* Expander loop (make_music).                                             *)
(*                                                                         *)
(* Durations are counted in thirds of a quarter note, so that a triplet    *)
(* eighth (a third of a beat) is 1 and one beat is QL(1) = 3.  music21's   *)
(* quarterLength is a float when the value is dyadic and a Fraction        *)
(* otherwise; IsFloat tells the two apart.                                 *)
(***************************************************************************)
EXTENDS Integers, Sequences, FiniteSets, TLC

VARIABLES
  cmd,            \* sys.argv command: "make_model" or "make_music"
  pep479,         \* interpreter turns StopIteration inside a generator into RuntimeError
  pc,             \* position of the running command
  err,            \* the exception that ended the run ("" while none)
  corpus,         \* the filtered chorales, each a mapping voice -> VoiceStream
  ci,             \* number of chorales the for loop of make_model has taken
  pos,            \* gen_states: events consumed from each voice's stream
  counter,        \* gen_states / make_music: counter[voice]
  state,          \* gen_states: state[voice]
  states,         \* make_model: the list the comprehension is building
  training,       \* make_model: training
  model_file,     \* what make_model wrote to model_file
  walk,           \* make_music: the tokens chain.walk() yields
  wi,             \* make_music: tokens taken from the walk
  current_state,  \* make_music: current_state[voice]
  parts,          \* make_music: parts[voice], the appended notes and rests
  score,          \* make_music: what score.show() rendered
  origin,         \* <<piece>> when the walk replays gen_states on piece, else <<>>
  argv,           \* sys.argv[1:]
  io,             \* the corpus and model-file accesses made so far
  part,           \* notes_and_durations: the notes, rests and chords of the part
  pi,             \* notes_and_durations: elements taken from the part
  yielded         \* notes_and_durations: the (name, duration) pairs yielded

vars == <<cmd, pep479, pc, err, corpus, ci, pos, counter, state, states,
          training, model_file, walk, wi, current_state, parts, score, origin,
          argv, io, part, pi, yielded>>

----------------------------------------------------------------------------
(* Bounds *)
MaxLen == 2      \* events per voice stream
MaxPieces == 2   \* chorales in a corpus
MaxWalk == 3     \* tokens in a walk that does not come from gen_states

----------------------------------------------------------------------------
(* Voices *)
Soprano == "Soprano"
Alto == "Alto"
Tenor == "Tenor"
Bass == "Bass"
All == {Soprano, Alto, Tenor, Bass}

\* Iteration order of the dicts counter / state / parts (insertion order).
VoiceOrder == <<Soprano, Alto, Tenor, Bass>>

order(voice) ==
  CASE voice = Soprano -> 1
    [] voice = Alto -> 2
    [] voice = Tenor -> 3
    [] voice = Bass -> 4

----------------------------------------------------------------------------
(* Events and durations *)
NoneVal == <<>>                 \* Python's None

QL(beats) == 3 * beats          \* a whole number of beats, in thirds of a beat

\* dur.quarterLength is a float (exactly) when dyadic, a Fraction otherwise.
IsFloat(d) == d % QL(1) = 0

RECURSIVE Total(_)
Total(stream) ==
  IF stream = <<>> THEN 0 ELSE stream[1][2] + Total(Tail(stream))

SeqsUpTo(S, n) == UNION {[1..k -> S] : k \in 0..n}

----------------------------------------------------------------------------
(* The rule shared by gen_states and make_music: the voices to advance *)
MinValue(c) == CHOOSE m \in {c[v] : v \in All} : \A v \in All : m <= c[v]

\* Variant of MinVoices: a single voice at the minimum, as min(counter,
\* key=counter.get) would select.
MinVoicesFirstOnly(c) ==
  <<CHOOSE k \in All :
      /\ c[k] = MinValue(c)
      /\ \A j \in All : c[j] = MinValue(c) => order(k) <= order(j)>>

\* [k for k in counter if counter[k] == min_value], in dict order
MinVoices(c) == SelectSeq(VoiceOrder, LAMBDA k : c[k] = MinValue(c))

----------------------------------------------------------------------------
(* gen_states *)
ZeroCounter == [v \in All |-> 0]
NoState == [v \in All |-> NoneVal]

GenInit == [pos |-> ZeroCounter, counter |-> ZeroCounter, state |-> NoState,
            status |-> "running"]

\* The for loop over min_voices.  next() on an exhausted stream raises
\* StopIteration inside the generator: it ends the generator silently, or
\* (PEP 479) becomes a RuntimeError.  Decimal() of a Fraction raises
\* TypeError, after state[voice] has been assigned.
\* Variant of AdvanceVoices: the counter is set to the duration pulled
\* (counter[voice] = ...) instead of advanced by it.
RECURSIVE AdvanceVoicesAssign(_, _, _, _)
AdvanceVoicesAssign(g, streams, voices, pep) ==
  IF voices = <<>> THEN g
  ELSE LET voice == Head(voices) IN
    IF g.pos[voice] = Len(streams[voice])
    THEN [g EXCEPT !.status = IF pep THEN "RuntimeError" ELSE "returned"]
    ELSE LET elem == streams[voice][g.pos[voice] + 1]
             g1 == [g EXCEPT !.pos[voice] = @ + 1, !.state[voice] = elem]
         IN IF ~IsFloat(elem[2])
            THEN [g1 EXCEPT !.status = "TypeError"]
            ELSE AdvanceVoicesAssign([g1 EXCEPT !.counter[voice] = elem[2]],
                                     streams, Tail(voices), pep)

RECURSIVE AdvanceVoices(_, _, _, _)
AdvanceVoices(g, streams, voices, pep) ==
  IF voices = <<>> THEN g
  ELSE LET voice == Head(voices) IN
    IF g.pos[voice] = Len(streams[voice])
    THEN [g EXCEPT !.status = IF pep THEN "RuntimeError" ELSE "returned"]
    ELSE LET elem == streams[voice][g.pos[voice] + 1]
             g1 == [g EXCEPT !.pos[voice] = @ + 1, !.state[voice] = elem]
         IN IF ~IsFloat(elem[2])
            THEN [g1 EXCEPT !.status = "TypeError"]
            ELSE AdvanceVoices([g1 EXCEPT !.counter[voice] = @ + elem[2]],
                               streams, Tail(voices), pep)

\* Variant of GenStep: every voice pulls in every pass.
GenStepAllVoices(g, streams, pep) ==
  AdvanceVoices(g, streams, VoiceOrder, pep)

\* One pass of the while loop, up to the yield (status "running") or to the
\* exception that ends the generator.
GenStep(g, streams, pep) ==
  AdvanceVoices(g, streams, MinVoices(g.counter), pep)

\* Variant of GenStepIn: the minimum is computed anew for each voice of
\* the loop (if counter[voice] == min(counter.values())).
RECURSIVE AdvanceLiveMin(_, _, _, _)
AdvanceLiveMin(g, streams, voices, pep) ==
  IF voices = <<>> THEN g
  ELSE IF g.counter[Head(voices)] # MinValue(g.counter)
  THEN AdvanceLiveMin(g, streams, Tail(voices), pep)
  ELSE LET g1 == AdvanceVoices(g, streams, <<Head(voices)>>, pep) IN
         IF g1.status # "running" THEN g1
         ELSE AdvanceLiveMin(g1, streams, Tail(voices), pep)

GenStepInLiveMin(g, streams, pep, ord) == AdvanceLiveMin(g, streams, ord, pep)

\* One pass of the while loop when the dict counter iterates in the order
\* ord (GenStep is the case ord = VoiceOrder).
GenStepIn(g, streams, pep, ord) ==
  AdvanceVoices(g, streams,
                SelectSeq(ord, LAMBDA k : g.counter[k] = MinValue(g.counter)),
                pep)

\* Variant of JointState: the alto and the tenor in each other's place.
JointStateSwapped(st) == <<st[Soprano], st[Tenor], st[Alto], st[Bass]>>

\* The tuple gen_states yields.
JointState(st) == <<st[Soprano], st[Alto], st[Tenor], st[Bass]>>

\* Every JointState gen_states yields on streams, in order.
RECURSIVE GenEmitted(_, _)
GenEmitted(g, streams) ==
  LET g1 == GenStep(g, streams, TRUE) IN
    IF g1.status = "running"
    THEN <<JointState(g1.state)>> \o GenEmitted(g1, streams)
    ELSE <<>>

\* Every JointState gen_states yields on streams under the order ord.
RECURSIVE GenEmittedIn(_, _, _)
GenEmittedIn(g, streams, ord) ==
  LET g1 == GenStepIn(g, streams, TRUE, ord) IN
    IF g1.status = "running"
    THEN <<JointState(g1.state)>> \o GenEmittedIn(g1, streams, ord)
    ELSE <<>>

----------------------------------------------------------------------------
(* The codec: str(state) in make_model, literal_eval in make_music.  A     *)
(* token is the text of a tuple, kept as its syntax: a sequence of entries  *)
(* [t, items], each item a scalar [t, s, n].                               *)

\* repr of a str, of a float, of a Fraction
ReprStr(sym) == [t |-> "str", s |-> sym, n |-> 0]
ReprNum(d) ==
  IF IsFloat(d) THEN [t |-> "float", s |-> "", n |-> d]
  ELSE [t |-> "call", s |-> "Fraction", n |-> d]

ReprEntry(e) ==
  IF e = NoneVal THEN [t |-> "None", items |-> <<>>]
  ELSE [t |-> "tuple", items |-> <<ReprStr(e[1]), ReprNum(e[2])>>]

\* str(state)
Encode(js) == [i \in 1..Len(js) |-> ReprEntry(js[i])]

\* literal_eval accepts tuples, strings, numbers and None; a call such as
\* Fraction(1, 3) makes it raise ValueError.
IsLiteral(token) ==
  \A i \in 1..Len(token) :
    /\ token[i].t \in {"tuple", "None"}
    /\ \A j \in 1..Len(token[i].items) : token[i].items[j].t \in {"str", "float"}

EvalScalar(x) == IF x.t = "str" THEN x.s ELSE x.n

EvalEntry(e) ==
  IF e.t = "None" THEN NoneVal
  ELSE [j \in 1..Len(e.items) |-> EvalScalar(e.items[j])]

\* make_tuple(state), for a token literal_eval accepts
literal_eval(token) == [i \in 1..Len(token) |-> EvalEntry(token[i])]

EncodeAll(jss) == [i \in 1..Len(jss) |-> Encode(jss[i])]

----------------------------------------------------------------------------
(* The body of the for loop of make_music *)
Rest(d) == <<"rest", d>>
Note(pitch, d) == <<pitch, d>>

MusicInit == [current_state |-> NoState, counter |-> ZeroCounter,
              parts |-> [v \in All |-> <<>>], err |-> ""]

\* for voice in min_voices: unpack, append, advance the counter
RECURSIVE AppendVoices(_, _)
AppendVoices(m, voices) ==
  IF voices = <<>> THEN m
  ELSE LET voice == Head(voices)
           cs == m.current_state[voice]
       IN IF cs = NoneVal THEN [m EXCEPT !.err = "TypeError"]
          ELSE IF Len(cs) # 2 THEN [m EXCEPT !.err = "ValueError"]
          ELSE LET n == IF cs[1] = "rest" THEN Rest(cs[2]) ELSE Note(cs[1], cs[2])
               IN AppendVoices([m EXCEPT !.parts[voice] = Append(@, n),
                                         !.counter[voice] = @ + cs[2]],
                               Tail(voices))

\* Variant of ExpandStep: a voice is appended to when the token's value for
\* it differs from the value it held, not when its counter is the minimum.
ExpandStepByChange(m, token) ==
  IF ~IsLiteral(token) THEN [m EXCEPT !.err = "ValueError"]
  ELSE LET val == literal_eval(token) IN
    IF Len(val) # 4 THEN [m EXCEPT !.err = "ValueError"]
    ELSE AppendVoices([m EXCEPT !.current_state =
                           [v \in All |-> val[order(v)]]],
                      SelectSeq(VoiceOrder,
                                LAMBDA v : val[order(v)] # m.current_state[v]))

\* S, A, T, B = make_tuple(state); the four assignments to current_state;
\* min_value, min_voices; the for loop over min_voices.
ExpandStep(m, token) ==
  IF ~IsLiteral(token) THEN [m EXCEPT !.err = "ValueError"]
  ELSE LET val == literal_eval(token) IN
    IF Len(val) # 4 THEN [m EXCEPT !.err = "ValueError"]
    ELSE AppendVoices([m EXCEPT !.current_state =
                           [v \in All |-> val[order(v)]]],
                      MinVoices(m.counter))

----------------------------------------------------------------------------
(* Inputs: what notes_and_durations yields for each voice of a chorale.     *)
(* Durations 2 and 4 are triplet values (two and four thirds of a beat).    *)
Events(voice) ==
  CASE voice = Soprano -> {<<"C4", QL(1)>>, <<"D4", QL(1)>>, <<"C4", 2>>, <<"C4", 4>>}
    [] voice = Alto -> {<<"E4", QL(2)>>, <<"rest", QL(1)>>}
    [] voice = Tenor -> {<<"G3", QL(2)>>}
    [] voice = Bass -> {<<"C3", QL(2)>>}

Streams(voice) == SeqsUpTo(Events(voice), MaxLen)

Pieces ==
  {[Soprano |-> s, Alto |-> a, Tenor |-> t, Bass |-> b] :
     s \in Streams(Soprano), a \in Streams(Alto),
     t \in Streams(Tenor), b \in Streams(Bass)}

\* The chorales of a corpus of several pieces: only the soprano varies.
CorpusPieces ==
  {p \in Pieces :
     /\ p[Alto] = <<<<"E4", QL(2)>>>>
     /\ p[Tenor] = <<<<"G3", QL(2)>>>>
     /\ p[Bass] = <<<<"C3", QL(2)>>>>
     /\ \A i \in 1..Len(p[Soprano]) : p[Soprano][i] = <<"C4", QL(1)>>}

Corpora ==
  SeqsUpTo(Pieces, 1) \cup UNION {[1..k -> CorpusPieces] : k \in 2..MaxPieces}

EqualTotals(piece) == \A v \in All : Total(piece[v]) = Total(piece[Soprano])

\* Tokens a model file can hold: JointStates as make_model writes them, and
\* three malformed ones (a Fraction call, a 3-tuple, None for the alto).
GoodTokens ==
  {Encode(<<s, a, <<"G3", QL(2)>>, <<"C3", QL(2)>>>>) :
     s \in {<<"C4", QL(1)>>, <<"D4", QL(1)>>},
     a \in {<<"E4", QL(2)>>, <<"rest", QL(1)>>}}

BadTokens ==
  { Encode(<<<<"C4", 2>>, <<"E4", QL(2)>>, <<"G3", QL(2)>>, <<"C3", QL(2)>>>>),
    Encode(<<<<"C4", QL(1)>>, <<"E4", QL(2)>>, <<"G3", QL(2)>>>>),
    Encode(<<<<"C4", QL(1)>>, NoneVal, <<"G3", QL(2)>>, <<"C3", QL(2)>>>>) }

Walks == SeqsUpTo(GoodTokens \cup BadTokens, MaxWalk)

----------------------------------------------------------------------------
(* Initial states *)
InitModel ==
  /\ cmd = "make_model"
  /\ corpus \in Corpora
  /\ walk = <<>>
  /\ origin = <<>>

InitMusic ==
  /\ cmd = "make_music"
  /\ corpus = <<>>
  /\ \/ walk \in Walks /\ origin = <<>>
     \/ \E piece \in Pieces :
          /\ walk = EncodeAll(GenEmitted(GenInit, piece))
          /\ origin = <<piece>>

Init ==
  /\ pep479 \in BOOLEAN
  /\ (InitModel \/ InitMusic)
  /\ pc = IF cmd = "make_model" THEN "for" ELSE "walk"
  /\ err = ""
  /\ ci = 0
  /\ pos = GenInit.pos
  /\ counter = ZeroCounter
  /\ state = GenInit.state
  /\ states = <<>>
  /\ training = <<>>
  /\ model_file = [written |-> FALSE, content |-> <<>>, holds |-> "previous"]
  /\ wi = 0
  /\ current_state = MusicInit.current_state
  /\ parts = MusicInit.parts
  /\ score = [shown |-> FALSE, layers |-> <<>>]
  /\ argv = IF cmd = "make_model" THEN <<cmd, "model.json", "1">>
            ELSE <<cmd, "model.json">>
  /\ io = IF cmd = "make_model" THEN {} ELSE {"model_read"}
  /\ part = <<>>
  /\ pi = 0
  /\ yielded = <<>>

----------------------------------------------------------------------------
(* make_model *)

\* for chorale in chorales: the next chorale; four fresh voice streams and a
\* fresh generator, whose first next() comes with the comprehension.
NextChorale ==
  /\ cmd = "make_model" /\ pc = "for" /\ ci < Len(corpus)
  /\ ci' = ci + 1
  /\ pos' = GenInit.pos
  /\ counter' = GenInit.counter
  /\ state' = GenInit.state
  /\ states' = <<>>
  /\ pc' = "gen"
  /\ io' = io \cup {"corpus"}
  /\ UNCHANGED <<cmd, pep479, err, corpus, training, model_file, walk, wi,
                 current_state, parts, score, origin, argv, part, pi, yielded>>

\* states = [str(state) for state in gen_states(...)]: one next() of the
\* generator.  A yield adds str(state); the generator's end closes the list
\* and training.append(states) follows; an exception leaves make_model.
GenNext ==
  /\ cmd = "make_model" /\ pc = "gen"
  /\ LET g == [pos |-> pos, counter |-> counter, state |-> state,
               status |-> "running"]
         g1 == GenStep(g, corpus[ci], pep479)
     IN /\ pos' = g1.pos
        /\ counter' = g1.counter
        /\ state' = g1.state
        /\ states' = IF g1.status = "running"
                     THEN Append(states, Encode(JointState(g1.state)))
                     ELSE states
        /\ training' = IF g1.status = "returned"
                       THEN Append(training, states)
                       ELSE training
        /\ pc' = CASE g1.status = "running" -> "gen"
                   [] g1.status = "returned" -> "for"
                   [] OTHER -> "failed"
        /\ err' = IF g1.status \in {"running", "returned"} THEN "" ELSE g1.status
  /\ UNCHANGED <<cmd, pep479, corpus, ci, model_file, walk, wi,
                 current_state, parts, score, origin, argv, io, part, pi,
                 yielded>>

\* The for loop ends; chain = Chain(training, state_size).  On an empty
\* training list the library either builds an empty chain or raises KeyError
\* (when it precomputes the begin state), depending on its version.
BuildChain ==
  /\ cmd = "make_model" /\ pc = "for" /\ ci = Len(corpus)
  /\ io' = io \cup {"corpus"}
  /\ \/ pc' = "open" /\ err' = err
     \/ training = <<>> /\ pc' = "failed" /\ err' = "KeyError"
  /\ UNCHANGED <<cmd, pep479, corpus, ci, pos, counter, state, states,
                 training, model_file, walk, wi, current_state, parts, score,
                 origin, argv, part, pi, yielded>>

\* with open(model_file, 'w') as f: the file is created or truncated.
OpenModelFile ==
  /\ cmd = "make_model" /\ pc = "open"
  /\ model_file' = [model_file EXCEPT !.holds = "empty"]
  /\ io' = io \cup {"model_write"}
  /\ pc' = "write"
  /\ UNCHANGED <<cmd, pep479, err, corpus, ci, pos, counter, state, states,
                 training, walk, wi, current_state, parts, score, origin,
                 argv, part, pi, yielded>>

\* f.write(chain.to_json()) completes.
WriteModel ==
  /\ cmd = "make_model" /\ pc = "write"
  /\ model_file' = [written |-> TRUE, content |-> training, holds |-> "model"]
  /\ pc' = "done"
  /\ UNCHANGED <<cmd, pep479, err, corpus, ci, pos, counter, state, states,
                 training, walk, wi, current_state, parts, score, origin,
                 argv, io, part, pi, yielded>>

\* chain.to_json() or f.write raises: the file stays as the failure left it,
\* empty or with a part of the text.
WriteFails ==
  /\ cmd = "make_model" /\ pc = "write"
  /\ \E left \in {"empty", "partial"} :
       model_file' = [model_file EXCEPT !.holds = left]
  /\ pc' = "failed"
  /\ err' = "OSError"
  /\ UNCHANGED <<cmd, pep479, corpus, ci, pos, counter, state, states,
                 training, walk, wi, current_state, parts, score, origin,
                 argv, io, part, pi, yielded>>

----------------------------------------------------------------------------
(* make_music *)

\* for state in chain.walk(): one token
WalkNext ==
  /\ cmd = "make_music" /\ pc = "walk" /\ wi < Len(walk)
  /\ LET m == [current_state |-> current_state, counter |-> counter,
               parts |-> parts, err |-> ""]
         m1 == ExpandStep(m, walk[wi + 1])
     IN /\ current_state' = m1.current_state
        /\ counter' = m1.counter
        /\ parts' = m1.parts
        /\ err' = m1.err
        /\ pc' = IF m1.err = "" THEN "walk" ELSE "failed"
  /\ wi' = wi + 1
  /\ UNCHANGED <<cmd, pep479, corpus, ci, pos, state, states, training,
                 model_file, walk, score, origin, argv, io, part, pi, yielded>>

\* the walk has ended: score.insert(Voice.order(k), v) for each part, score.show()
Show ==
  /\ cmd = "make_music" /\ pc = "walk" /\ wi = Len(walk)
  /\ score' = [shown |-> TRUE,
               layers |-> [k \in All |-> [offset |-> order(k), part |-> parts[k]]]]
  /\ pc' = "shown"
  /\ UNCHANGED <<cmd, pep479, err, corpus, ci, pos, counter, state, states,
                 training, model_file, walk, wi, current_state, parts, origin,
                 argv, io, part, pi, yielded>>

Next ==
  \/ NextChorale \/ GenNext \/ BuildChain \/ OpenModelFile \/ WriteModel
  \/ WriteFails \/ WalkNext \/ Show

Spec == Init /\ [][Next]_vars

----------------------------------------------------------------------------
(* Vocabulary of the properties *)

\* Every duration of the piece is a float quarterLength (no triplet value).
FloatOnly(piece) ==
  \A v \in All : \A i \in 1..Len(piece[v]) : IsFloat(piece[v][i][2])

\* The onset times of a stream's events.
Onsets(stream) == {Total(SubSeq(stream, 1, k)) : k \in 0..(Len(stream) - 1)}

AllOnsets(piece) == UNION {Onsets(piece[v]) : v \in All}

\* The chorale whose generator is running or has just ended.
Chorale == corpus[ci]

\* The generator of the current chorale has ended (returned or raised).
GenEnded ==
  cmd = "make_model" /\ ci >= 1
    /\ pc \in {"for", "open", "write", "failed", "done"}

\* The make_music loop run over a list of tokens, from the initial values.
RECURSIVE ExpandFrom(_, _)
ExpandFrom(m, tokens) ==
  IF tokens = <<>> \/ m.err # "" THEN m
  ELSE ExpandFrom(ExpandStep(m, Head(tokens)), Tail(tokens))

ExpandAll(tokens) == ExpandFrom(MusicInit, tokens)

\* make_tuple and the unpacking S, A, T, B = ... both succeed.
Decodable(token) == IsLiteral(token) /\ Len(literal_eval(token)) = 4

\* The token decodes to four (symbol, duration) pairs.
IsJointStateToken(token) ==
  /\ Decodable(token)
  /\ \A i \in 1..4 : Len(literal_eval(token)[i]) = 2

\* The example of the specification.
ExamplePiece ==
  [Soprano |-> <<<<"C4", QL(1)>>, <<"D4", QL(1)>>>>,
   Alto |-> <<<<"E4", QL(2)>>>>,
   Tenor |-> <<<<"G3", QL(2)>>>>,
   Bass |-> <<<<"C3", QL(2)>>>>]

----------------------------------------------------------------------------
(* C1: for four streams with equal total duration, the make_music loop run
   over all the JointStates gen_states emitted leaves in each voice's
   timeline exactly that voice's events, in order.  Stated of every piece,
   triplet durations included. *)
C1_ExpanderInvertsSynchronizer ==
  (cmd = "make_music" /\ pc = "shown" /\ origin # <<>> /\ EqualTotals(origin[1]))
    => \A v \in All : parts[v] = origin[1][v]

\* The same statement for pieces all of whose durations are floats.
InverseOnFloatStreams ==
  (cmd = "make_music" /\ pc = "shown" /\ origin # <<>>
     /\ EqualTotals(origin[1]) /\ FloatOnly(origin[1]))
    => \A v \in All : parts[v] = origin[1][v]

(* C2: when the four totals differ the generator ends in an error; it never
   ends as a normally terminated sequence (which is what lets the
   comprehension complete and make_model go on to the next chorale). *)
C2_UnequalTotalsRaise ==
  (cmd = "make_model" /\ ci >= 1 /\ pc = "for") => EqualTotals(Chorale)

\* The training examples of the chorales whose four totals are equal.
RECURSIVE ExpectedTraining(_)
ExpectedTraining(c) ==
  IF c = <<>> THEN <<>>
  ELSE (IF EqualTotals(Head(c))
        THEN <<EncodeAll(GenEmitted(GenInit, Head(c)))>> ELSE <<>>)
       \o ExpectedTraining(Tail(c))

(* C3: a corpus holding a chorale with unequal totals still ends with the
   model written, built from exactly the examples of the other chorales. *)
C3_MismatchedPieceDropped ==
  (cmd = "make_model" /\ pc \in {"done", "failed"} /\ err # "OSError"
     /\ \E i \in 1..Len(corpus) : ~EqualTotals(corpus[i]) /\ FloatOnly(corpus[i]))
    => /\ pc = "done"
       /\ model_file.written
       /\ model_file.content = ExpectedTraining(corpus)

(* C4: the JointState gen_states holds once every voice has an event, a
   third of a beat included, is encoded by str to a token that literal_eval
   decodes to a 4-tuple equal to it. *)
C4_RoundTrip ==
  (cmd = "make_model" /\ \A v \in All : state[v] # NoneVal)
    => /\ Decodable(Encode(JointState(state)))
       /\ literal_eval(Encode(JointState(state))) = JointState(state)

\* The round trip of the JointStates gen_states did yield.
RoundTripOfEmitted ==
  \A i \in 1..Len(states) :
    /\ Decodable(states[i])
    /\ Encode(literal_eval(states[i])) = states[i]

(* C5: for every JointState the make_music loop consumes, a voice gets the
   JointState's event for it appended and its counter advanced by the
   event's duration exactly when its counter is the minimum before the
   step; every other voice's timeline and counter are unchanged. *)
C5_ExpanderAdvancesExactlyBehind ==
  [][(cmd = "make_music" /\ pc = "walk" /\ wi' = wi + 1
        /\ IsJointStateToken(walk[wi + 1]))
     => \A v \in All :
          LET e == literal_eval(walk[wi + 1])[order(v)] IN
            IF counter[v] = MinValue(counter)
            THEN /\ parts'[v] = Append(parts[v], e)
                 /\ counter'[v] = counter[v] + e[2]
            ELSE /\ parts'[v] = parts[v]
                 /\ counter'[v] = counter[v]]_vars

\* The soprano, behind, appended the event it had appended last, while the
\* alto, ahead, appended nothing although the token carried a new value.
C5_Witness ==
  /\ cmd = "make_music" /\ wi = 2 /\ pc = "walk"
  /\ Len(parts[Soprano]) = 2 /\ parts[Soprano][1] = parts[Soprano][2]
  /\ Len(parts[Alto]) = 1
  /\ IsJointStateToken(walk[2])
  /\ literal_eval(walk[2])[order(Alto)] # parts[Alto][1]

\* The i-th onset time of the piece, in increasing order.
NthOnset(piece, i) ==
  CHOOSE t \in AllOnsets(piece) :
    Cardinality({u \in AllOnsets(piece) : u < t}) = i - 1

\* The event of the stream that sounds at time t.
SoundingAt(stream, t) ==
  stream[CHOOSE k \in 1..Len(stream) :
           /\ Total(SubSeq(stream, 1, k - 1)) <= t
           /\ t < Total(SubSeq(stream, 1, k))]

\* What a full pass over an equal-totals chorale leaves behind.
FullPass ==
  \A v \in All :
    /\ counter[v] = Total(Chorale[v])
    /\ pos[v] = Len(Chorale[v])
    /\ ExpandAll(states).parts[v] = Chorale[v]

(* C6: for four streams with equal total duration T, when gen_states stops
   every counter is T, every event of every stream has been pulled, and the
   events that are fresh in the emitted JointStates are exactly the streams
   (none pulled without being emitted). *)
C6_FullPass ==
  (GenEnded /\ EqualTotals(Chorale)) => FullPass

\* The same statement for chorales all of whose durations are floats.
FullPassOnFloatStreams ==
  (GenEnded /\ EqualTotals(Chorale) /\ FloatOnly(Chorale)) => FullPass

\* One JointState per onset time, in increasing order of time.
OnePerOnset ==
  /\ Len(states) = Cardinality(AllOnsets(Chorale))
  /\ \A i \in 1..Len(states) :
       /\ Decodable(states[i])
       /\ \A v \in All :
            literal_eval(states[i])[order(v)]
              = SoundingAt(Chorale[v], NthOnset(Chorale, i))

\* The counters the specification's example goes through.
ExampleRun ==
  /\ Len(states) <= 2
  /\ (pc = "gen" /\ Len(states) = 1)
       => counter = [v \in All |-> IF v = Soprano THEN QL(1) ELSE QL(2)]
  /\ Len(states) = 2 => counter = [v \in All |-> QL(2)]
  /\ GenEnded => Len(states) = 2

(* C7: for four equal-total streams gen_states emits exactly one JointState
   per distinct onset time of the four voices, in increasing time order; on
   the example that is 2 JointStates, with counters 1,2,2,2 and 2,2,2,2. *)
C7_OneJointStatePerOnset ==
  /\ (GenEnded /\ EqualTotals(Chorale)) => OnePerOnset
  /\ (cmd = "make_model" /\ ci >= 1 /\ Chorale = ExamplePiece) => ExampleRun

\* The same statement for chorales all of whose durations are floats.
OnePerOnsetOnFloatStreams ==
  /\ (GenEnded /\ EqualTotals(Chorale) /\ FloatOnly(Chorale)) => OnePerOnset
  /\ (cmd = "make_model" /\ ci >= 1 /\ Chorale = ExamplePiece) => ExampleRun

(* C8: in every step of gen_states a voice whose counter is above the
   minimum keeps its position, current event and counter; in every step
   that yields, each voice at the minimum has pulled exactly one event,
   holds it as its current event and has its duration added to its counter,
   and the yielded JointState holds every voice's current event. *)
C8_GenStepFrame ==
  [][(cmd = "make_model" /\ pc = "gen")
     => /\ \A v \in All :
             counter[v] # MinValue(counter)
               => /\ pos'[v] = pos[v]
                  /\ state'[v] = state[v]
                  /\ counter'[v] = counter[v]
        /\ Len(states') = Len(states) + 1
             => \A v \in All :
                  /\ counter[v] = MinValue(counter)
                       => /\ pos'[v] = pos[v] + 1
                          /\ state'[v] = Chorale[v][pos[v] + 1]
                          /\ counter'[v] = counter[v] + state'[v][2]
                  /\ counter[v] # MinValue(counter)
                       => literal_eval(states'[Len(states')])[order(v)] = state[v]
                  /\ literal_eval(states'[Len(states')])[order(v)] = state'[v]]_vars

\* A second JointState has been yielded by a step in which only the soprano
\* was behind.
C8_Witness ==
  /\ cmd = "make_model" /\ pc = "gen" /\ Len(states) = 2
  /\ pos[Soprano] = 2
  /\ \A v \in All \ {Soprano} : pos[v] = 1

\* No entry of the token is None.
NoNone(token) ==
  /\ Len(token) = 4
  /\ \A k \in 1..4 : token[k].t # "None"

(* C9: the first JointState gen_states yields holds the first event of each
   of the four voices; no yielded JointState holds None for a voice; a
   chorale with an empty stream yields nothing. *)
C9_FirstJointStateFresh ==
  cmd = "make_model" =>
    /\ \A i \in 1..Len(states) : NoNone(states[i])
    /\ \A j \in 1..Len(training) :
         \A i \in 1..Len(training[j]) : NoNone(training[j][i])
    /\ Len(states) >= 1 =>
         \A v \in All :
           /\ Len(Chorale[v]) >= 1
           /\ Decodable(states[1])
           /\ literal_eval(states[1])[order(v)] = Chorale[v][1]
    /\ (ci >= 1 /\ \E v \in All : Chorale[v] = <<>>) => states = <<>>

\* The first JointState has just been yielded: every voice has pulled once.
C9_Witness ==
  /\ cmd = "make_model" /\ pc = "gen" /\ Len(states) = 1
  /\ \A v \in All : pos[v] = 1 /\ state[v] = Chorale[v][1]

(* C10: a token that cannot be decoded on the first step of the walk makes
   the run fail without output; one that cannot be decoded later does not
   fail the run (the timelines are truncated there and still rendered). *)
C10_MidWalkMalformedTruncates ==
  (cmd = "make_music" /\ wi >= 1 /\ ~Decodable(walk[wi]))
    => IF wi = 1 THEN pc = "failed" /\ ~score.shown
       ELSE pc # "failed"

\* What the code does: an exception of the loop ends make_music before
\* score.show(), wherever in the walk it is raised.
FailedRunShowsNothing ==
  (cmd = "make_music" /\ wi >= 1 /\ ~Decodable(walk[wi]))
    => pc = "failed" /\ ~score.shown

----------------------------------------------------------------------------
\* The values make_music holds after the first n tokens of the walk, had
\* every one of them been processed whole.
Before(n) == ExpandAll(SubSeq(walk, 1, n))

(* C11: a token that is not a 4-tuple of (symbol, duration) pairs is
   rejected, and the rejection leaves current_state, the counters and the
   timelines as they were before the token. *)
C11_MalformedRejectedWhole ==
  (cmd = "make_music" /\ wi >= 1 /\ pc # "shown"
     /\ ~IsJointStateToken(walk[wi]) /\ Before(wi - 1).err = "")
    => /\ pc = "failed"
       /\ current_state = Before(wi - 1).current_state
       /\ counter = Before(wi - 1).counter
       /\ parts = Before(wi - 1).parts

(* C17: the voice rank only layers the four parts; all four timelines are
   placed in the score at the same time offset. *)
C17_PartsStartTogether ==
  (cmd = "make_music" /\ pc = "shown")
    => \A k \in All : \A j \in All :
         score.layers[k].offset = score.layers[j].offset

(* C18: in every pass of gen_states that yields, with m the minimum counter
   before the pass, every voice's current event spans m (counter - duration
   <= m < counter), and the minimum counter has strictly increased. *)
C18_EventsSoundAtMinimum ==
  [][(cmd = "make_model" /\ pc = "gen" /\ Len(states') = Len(states) + 1)
     => /\ \A v \in All :
             /\ counter'[v] - state'[v][2] <= MinValue(counter)
             /\ MinValue(counter) < counter'[v]
        /\ MinValue(counter) < MinValue(counter')]_vars

\* After the second yield the alto still holds its first event, which spans
\* the minimum the soprano advanced from.
C18_Witness ==
  /\ cmd = "make_model" /\ pc = "gen" /\ Len(states) = 2
  /\ pos[Alto] = 1 /\ state[Alto][2] = QL(2)
  /\ counter[Soprano] = QL(2) /\ counter[Alto] = QL(2)

IsPrefix(s, t) == Len(s) <= Len(t) /\ s = SubSeq(t, 1, Len(s))

(* C19: for any four streams the timelines the make_music loop builds from
   the JointStates gen_states yielded are prefixes of the voices' streams;
   they hold every event pulled, except that an event pulled in the pass
   that ended the generator is in no yielded JointState. *)
C19_TimelinesArePrefixes ==
  /\ (cmd = "make_music" /\ origin # <<>>)
       => \A v \in All : IsPrefix(parts[v], origin[1][v])
  /\ (cmd = "make_model" /\ ci >= 1)
       => \A v \in All :
            LET tl == ExpandAll(states).parts[v] IN
              /\ ExpandAll(states).err = ""
              /\ IsPrefix(tl, Chorale[v])
              /\ Len(tl) <= pos[v] /\ pos[v] <= Len(tl) + 1
              /\ pc = "gen" => Len(tl) = pos[v]

\* The soprano's second event was pulled in the pass in which the alto was
\* found exhausted: it is consumed and in no yielded JointState.
C19_Witness ==
  /\ GenEnded /\ err \in {"", "RuntimeError"}
  /\ Len(states) = 1
  /\ pos[Soprano] = 2 /\ Len(ExpandAll(states).parts[Soprano]) = 1
  /\ pos[Alto] = 1 /\ Len(Chorale[Alto]) = 1

\* The counters before the pass that ended the generator.
LastCounter == ExpandAll(states).counter

\* How gen_states stopped, and how many JointStates it yielded before.
StoppedByExhaustion ==
  /\ err \in {"", "RuntimeError"}
  /\ \E v \in All : /\ LastCounter[v] = MinValue(LastCounter)
                    /\ pos[v] = Len(Chorale[v])
  /\ \A v \in All :
       (\A u \in All : Len(Chorale[v]) <= Len(Chorale[u]))
         => Len(states) >= pos[v]
  /\ Len(states) <= Len(Chorale[Soprano]) + Len(Chorale[Alto])
                      + Len(Chorale[Tenor]) + Len(Chorale[Bass])

(* C20: for any four finite streams gen_states stops by finding a behind
   voice's stream exhausted, after at least as many JointStates as the
   shortest stream's consumed prefix and at most as many as there are
   events. *)
C20_StopsByExhaustion ==
  (GenEnded /\ err # "OSError" /\ err # "KeyError") => StoppedByExhaustion

\* The same statement for chorales all of whose durations are floats.
StopsByExhaustionOnFloatStreams ==
  (GenEnded /\ err # "OSError" /\ err # "KeyError" /\ FloatOnly(Chorale))
    => StoppedByExhaustion

\* The orders in which a dict of the four voices could be iterated.
Orders == {o \in [1..4 -> All] : \A i \in 1..4 : \A j \in 1..4 : o[i] = o[j] => i = j}

\* The events of voice v in the yielded JointStates, and whether v cannot
\* complete its next pull (its stream is exhausted, or the event is a
\* Fraction that Decimal() rejects).
LastPos(v) == Len(ExpandAll(states).parts[v])
CannotAdvance(v) ==
  \/ LastPos(v) = Len(Chorale[v])
  \/ ~IsFloat(Chorale[v][LastPos(v) + 1][2])

\* In the pass that ended the generator the behind voices were taken in the
\* order Soprano, Alto, Tenor, Bass: those before the first that cannot
\* advance have pulled, those after it have not.
FixedOrderInLastPass ==
  \E f \in All :
    /\ LastCounter[f] = MinValue(LastCounter) /\ CannotAdvance(f)
    /\ \A v \in All :
         LastCounter[v] = MinValue(LastCounter) =>
           /\ order(v) < order(f) => (~CannotAdvance(v) /\ pos[v] = LastPos(v) + 1)
           /\ order(v) > order(f) => pos[v] = LastPos(v)

(* C15: the behind voices of a pass are advanced in the order Soprano, Alto,
   Tenor, Bass, and the JointStates yielded are those of every other order
   in which the behind voices could be advanced. *)
C15_OrderIndependent ==
  (cmd = "make_model" /\ ci >= 1) =>
    /\ (GenEnded /\ err # "OSError" /\ err # "KeyError") => FixedOrderInLastPass
    /\ (GenEnded /\ pc \in {"for", "failed"}) =>
         \A ord \in Orders :
           states = EncodeAll(GenEmittedIn(GenInit, Chorale, ord))

\* The generator ended in its first pass on an empty tenor stream: the
\* soprano and the alto had pulled, the bass had not.
C15_Witness ==
  /\ GenEnded /\ err \in {"", "RuntimeError"} /\ states = <<>>
  /\ Chorale[Tenor] = <<>> /\ Chorale[Bass] # <<>>
  /\ pos[Soprano] = 1 /\ pos[Alto] = 1 /\ pos[Tenor] = 0 /\ pos[Bass] = 0

----------------------------------------------------------------------------
(* The model file *)

(* C12: a failure while make_model serializes and writes the model leaves no
   empty or partial file at the model path: the path holds what it held
   before, or the complete new model once the write has completed. *)
C12_WriteIsAtomic ==
  cmd = "make_model" =>
    /\ model_file.holds \in {"nothing", "previous", "model"}
    /\ model_file.holds = "model" <=> model_file.written

(* C13: when no piece passes the filters, make_model fails with a diagnostic
   and writes no model file: an empty training list is never built into a
   model and persisted. *)
C13_EmptyCorpusFails ==
  (cmd = "make_model" /\ corpus = <<>>) =>
    /\ pc \notin {"open", "write", "done"}
    /\ model_file.holds \in {"nothing", "previous"}
    /\ ~model_file.written

----------------------------------------------------------------------------
(* The command surface *)

IsIntLiteral(s) == s \in {"0", "1", "2"}

\* The module's top level: what the dispatch on sys.argv[1:] leads to.
main(a) ==
  IF Len(a) < 2
    THEN [pc |-> "failed", err |-> "ValueError", cmd |-> ""]
  ELSE IF a[1] = "make_model"
    THEN IF Len(a) < 3
           THEN [pc |-> "failed", err |-> "IndexError", cmd |-> a[1]]
         ELSE IF ~IsIntLiteral(a[3])
           THEN [pc |-> "failed", err |-> "ValueError", cmd |-> a[1]]
         ELSE [pc |-> "for", err |-> "", cmd |-> a[1]]
  ELSE IF a[1] = "make_music"
    THEN [pc |-> "load", err |-> "", cmd |-> a[1]]
  ELSE [pc |-> "exit", err |-> "SystemExit", cmd |-> a[1]]

Argvs ==
  { <<>>, <<"make_model">>, <<"make_music">>,
    <<"make_model", "model.json">>,
    <<"make_model", "model.json", "x">>,
    <<"make_model", "model.json", "0">>,
    <<"make_model", "model.json", "1">>,
    <<"make_model", "model.json", "2", "major">>,
    <<"make_music", "model.json">>,
    <<"play", "model.json">> }

InitMain ==
  /\ argv \in Argvs
  /\ cmd = ""
  /\ pc = "start"
  /\ pep479 \in BOOLEAN
  /\ corpus \in IF main(argv).pc = "for" THEN SeqsUpTo(CorpusPieces, 1)
                ELSE {<<>>}
  /\ walk \in IF main(argv).pc = "load"
                THEN SeqsUpTo(GoodTokens \cup BadTokens, 1) ELSE {<<>>}
  /\ origin = <<>>
  /\ err = ""
  /\ ci = 0
  /\ pos = GenInit.pos
  /\ counter = ZeroCounter
  /\ state = GenInit.state
  /\ states = <<>>
  /\ training = <<>>
  /\ model_file \in
       {[written |-> FALSE, content |-> <<>>, holds |-> h] :
          h \in IF main(argv).pc = "load" THEN {"previous"}
                ELSE {"nothing", "previous"}}
  /\ wi = 0
  /\ current_state = MusicInit.current_state
  /\ parts = MusicInit.parts
  /\ score = [shown |-> FALSE, layers |-> <<>>]
  /\ io = {}
  /\ part = <<>>
  /\ pi = 0
  /\ yielded = <<>>

\* cmd, file_name, *args = sys.argv[1:] and the dispatch on cmd.
Main ==
  /\ pc = "start"
  /\ pc' = main(argv).pc
  /\ err' = main(argv).err
  /\ cmd' = main(argv).cmd
  /\ UNCHANGED <<pep479, corpus, ci, pos, counter, state, states, training,
                 model_file, walk, wi, current_state, parts, score, origin,
                 argv, io, part, pi, yielded>>

\* make_music reads the model file and sets up the score, the counters and
\* the parts.
LoadModel ==
  /\ cmd = "make_music" /\ pc = "load"
  /\ io' = io \cup {"model_read"}
  /\ pc' = "walk"
  /\ UNCHANGED <<cmd, pep479, err, corpus, ci, pos, counter, state, states,
                 training, model_file, walk, wi, current_state, parts, score,
                 origin, argv, part, pi, yielded>>

NextMain ==
  \/ Main \/ LoadModel
  \/ NextChorale \/ GenNext \/ BuildChain \/ OpenModelFile \/ WriteModel
  \/ WriteFails \/ WalkNext \/ Show

SpecMain == InitMain /\ [][NextMain]_vars

\* An invocation the command surface has to turn down.
InvalidInvocation ==
  \/ Len(argv) < 2
  \/ argv[1] \notin {"make_model", "make_music"}
  \/ /\ argv[1] = "make_model"
     /\ \/ Len(argv) < 3
        \/ argv[3] \notin {"1", "2"}

ExitedNonZero == pc \in {"failed", "exit"}

(* C14: every invalid invocation (an unknown command, a missing file path, a
   missing or non-numeric state size, a state size below 1 for make_model)
   ends with a non-zero exit status before any corpus read, model file read
   or model file write. *)
C14_InvalidInvocationFailsFast ==
  InvalidInvocation => (io = {} /\ pc \notin {"done", "shown"})

\* The invalid invocations other than a state size below 1 are turned down
\* before any read or write.
MalformedInvocationFailsFast ==
  (InvalidInvocation /\ ~(Len(argv) >= 3 /\ argv[3] = "0")) =>
    (pc = "start" \/ ExitedNonZero) /\ io = {}

----------------------------------------------------------------------------
(* notes_and_durations *)

\* The elements of a voice part: notes, rests and chords; a chord is given by
\* the name of its first note.
Elements ==
  { [kind |-> "note", name |-> "C4", dur |-> QL(1)],
    [kind |-> "note", name |-> "D4", dur |-> QL(2)],
    [kind |-> "note", name |-> "C4", dur |-> 2],
    [kind |-> "rest", name |-> "rest", dur |-> QL(1)],
    [kind |-> "chord", name |-> "C4", dur |-> QL(1)],
    [kind |-> "chord", name |-> "E4", dur |-> QL(2)] }

Parts == SeqsUpTo(Elements, MaxLen)

InitStream ==
  /\ part \in Parts
  /\ pi = 0
  /\ yielded = <<>>
  /\ cmd = "notes_and_durations"
  /\ pc = "stream"
  /\ pep479 = FALSE
  /\ corpus = <<>>
  /\ walk = <<>>
  /\ origin = <<>>
  /\ err = ""
  /\ ci = 0
  /\ pos = GenInit.pos
  /\ counter = ZeroCounter
  /\ state = GenInit.state
  /\ states = <<>>
  /\ training = <<>>
  /\ model_file = [written |-> FALSE, content |-> <<>>, holds |-> "nothing"]
  /\ wi = 0
  /\ current_state = MusicInit.current_state
  /\ parts = MusicInit.parts
  /\ score = [shown |-> FALSE, layers |-> <<>>]
  /\ argv = <<>>
  /\ io = {}

\* One turn of the for loop: the name of a note or a rest is read and the
\* pair is yielded in the else clause; on a chord the read of elem.name
\* raises AttributeError, the handler takes the first note's name, and the
\* else clause, with its yield, is skipped.
NextElement ==
  /\ pc = "stream" /\ pi < Len(part)
  /\ LET elem == part[pi + 1] IN
       yielded' = IF elem.kind = "chord" THEN yielded
                  ELSE Append(yielded, <<elem.name, elem.dur>>)
  /\ pi' = pi + 1
  /\ UNCHANGED <<cmd, pep479, pc, err, corpus, ci, pos, counter, state,
                 states, training, model_file, walk, wi, current_state,
                 parts, score, origin, argv, io, part>>

\* The part has no more elements: the generator returns.
StreamExhausted ==
  /\ pc = "stream" /\ pi = Len(part)
  /\ pc' = "exhausted"
  /\ UNCHANGED <<cmd, pep479, err, corpus, ci, pos, counter, state, states,
                 training, model_file, walk, wi, current_state, parts, score,
                 origin, argv, io, part, pi, yielded>>

NextStream == NextElement \/ StreamExhausted

SpecStream == InitStream /\ [][NextStream]_vars

(* C16: notes_and_durations yields one (symbol, duration) event for every
   note, rest and chord of the part, in order; the event of a chord carries
   its first note's name and the chord's duration. *)
C16_OneEventPerElement ==
  cmd = "notes_and_durations" =>
    /\ Len(yielded) = pi
    /\ \A i \in 1..Len(yielded) : yielded[i] = <<part[i].name, part[i].dur>>

\* On the notes and rests taken so far the stream is the part's, in order:
\* the events yielded are those of the elements that are not chords.
NotesAndRestsInOrder ==
  cmd = "notes_and_durations" =>
    LET taken == SubSeq(part, 1, pi)
        kept == SelectSeq(taken, LAMBDA e : e.kind # "chord") IN
      /\ Len(yielded) = Len(kept)
      /\ \A i \in 1..Len(kept) : yielded[i] = <<kept[i].name, kept[i].dur>>

====
